---- MODULE Spec2Model ----
(***************************************************************************)
(* A model of glastobot's orchestration core: GlastoManager and Glasto     *)
(* (src/utils/glasto.py), the observer GlastoGUI (src/utils/gui.py) and    *)
(* threaded_execution (src/utils/utils.py).                                *)
(*                                                                         *)
(* Threads of the program and how they appear here:                        *)
(*   - one auto_run thread per driver: pc[d] is its position;              *)
(*   - the execution thread running GlastoManager.start: start_k;          *)
(*   - the Tk main thread, which runs one callback at a time (a button's   *)
(*     command, a checkbox click, check_for_updates): cmd;                 *)
(*   - the url thread running monitor_urls: mon_pc, mon_k, mon_size.       *)
(* A step is one access to state shared between threads; handle calls and  *)
(* sleeps that touch nothing shared are folded into the step they precede. *)
(***************************************************************************)
EXTENDS Integers, Sequences, FiniteSets, TLC

VARIABLES
    n,              \* len(manager.drivers)
    url,            \* Glasto.url of every driver
    searching,      \* Glasto.searching of every driver
    pc,             \* position of every driver's auto_run thread
    caller,         \* which check_page call of auto_run is running
    cp_url,         \* check_page's local `url`
    cp_seen,        \* history: was cp_url a key of desired_page when read
    quit_calls,     \* number of Chrome.quit() calls on every handle
    stop_event,     \* manager.stop_event
    desired_page,   \* manager.desired_page, a dict in insertion order
    update_queue,   \* utils.globals.update_queue
    start_k,        \* index of the next driver GlastoManager.start handles
    cmd,            \* the callback the Tk main thread is running
    maximized,      \* driver whose window is maximized, or NoDriver
    labels,         \* driver_info[d]["label"] text
    checkboxes,     \* gui.checkboxes zipped with gui.checkvars
    mon_pc,         \* position of the monitor_urls thread
    mon_k,          \* monitor_urls: loop index in update_checkboxes
    mon_size,       \* size of the dict when its iteration began
    reads,          \* stub handle: current_url calls answered per driver
    pool_pc,        \* threaded_execution: position of the calling thread
    pool_m,         \* threaded_execution: number of elements
    pool_fail,      \* the elements on which `function` raises
    pool_next,      \* threaded_execution: the element the for loop is at
    task,           \* state of every element's work item
    calls,          \* number of invocations of `function` per element
    pool_threads,   \* executor: worker threads created
    pool_idle,      \* executor: value of the idle semaphore
    built,          \* the drivers list the launch lambda appends to
    pool_errors,    \* futures whose exception the last loop has logged
    pool_fn,        \* the function of the call: "launch" or "position"
    monitor,        \* screeninfo's first monitor and the display scaling
    window,         \* position and size of the windows that were placed
    hist,           \* history: the messages put on and taken off update_queue
    manager,        \* gui.manager is set (not None)
    event,          \* gui.event
    polling         \* number of pending after(100, check_for_updates) callbacks

agentVars == <<url, searching, pc, caller, cp_url, cp_seen, quit_calls>>
mgrVars   == <<n, stop_event, desired_page, update_queue, start_k>>
guiVars   == <<cmd, maximized, labels, checkboxes>>
monVars   == <<mon_pc, mon_k, mon_size>>
poolVars  == <<pool_pc, pool_m, pool_fail, pool_next, task, calls,
               pool_threads, pool_idle, built, pool_errors, pool_fn>>
layVars   == <<monitor, window>>
obsVars   == <<manager, event, polling>>
vars      == <<agentVars, mgrVars, guiVars, monVars, reads, poolVars, layVars, hist, obsVars>>

----------------------------------------------------------------------------
(* Bounds of the model *)

NumDrivers == 2
MaxQueue == 1
MaxStubCalls == 2
MaxTasks == 4
ExtraTasks == 1
MaxTotal == 9
MaxMessages == 3
MaxCount == 2

(* Program constants *)

BaseCount == 4
MaxWorkers == 12

EntryUrl == "https://example.test/"
QueueUrl == "https://example.test/queue"
Urls == {EntryUrl, QueueUrl}
NoUrl == "None"
NoDriver == -1

Drivers == 0 .. (n - 1)

----------------------------------------------------------------------------
(* Python dict, kept as the sequence of its items in insertion order *)

Keys(d) == {d[k].key : k \in 1 .. Len(d)}

Has(d, u) == u \in Keys(d)

IndexOf(d, u) == CHOOSE k \in 1 .. Len(d) : d[k].key = u

\* dict.get(u): the value, or None (falsy) when u is no key
DictGet(d, u) == IF Has(d, u) THEN d[IndexOf(d, u)].value ELSE FALSE

\* d[u] = v: an existing key keeps its place, a new key goes last
SetItem(d, u, v) ==
    IF Has(d, u)
    THEN [d EXCEPT ![IndexOf(d, u)].value = v]
    ELSE Append(d, [key |-> u, value |-> v])

----------------------------------------------------------------------------
(* GlastoManager.set_driver_position: the grid of windows.  The scaling is   *)
(* a whole factor (1.0 at 96 dpi, 2.0 at 192 dpi), for which the float       *)
(* divisions followed by int() are the integer divisions below.              *)

\* screeninfo.get_monitors()[0] and get_display_scaling()
Monitors ==
    {[width |-> 1920, height |-> 1080, scaling |-> 1],
     [width |-> 1366, height |-> 768, scaling |-> 1],
     [width |-> 3840, height |-> 2160, scaling |-> 2]}

\* math.ceil(math.sqrt(count))
CeilSqrt(count) == CHOOSE k \in 0 .. count : k * k >= count /\ \A j \in 0 .. (k - 1) : j * j < count

\* math.ceil(a / b)
CeilDiv(a, b) == (a + b - 1) \div b

grid_width(count) == CeilSqrt(count)

grid_height_mutant(count) == count \div grid_width(count)

grid_height(count) == CeilDiv(count, grid_width(count))

\* int(monitor.width / grid_width / scaling)
driver_width(count, m) == m.width \div (grid_width(count) * m.scaling)

\* int(monitor.height / grid_height / scaling)
driver_height(count, m) == m.height \div (grid_height(count) * m.scaling)

position_mutant(index, count, m) ==
    [x |-> (index \div grid_width(count)) * driver_width(count, m),
     y |-> (index % grid_width(count)) * driver_height(count, m),
     w |-> driver_width(count, m),
     h |-> driver_height(count, m)]

\* The arguments of set_window_position and set_window_size
position(index, count, m) ==
    [x |-> (index % grid_width(count)) * driver_width(count, m),
     y |-> (index \div grid_width(count)) * driver_height(count, m),
     w |-> driver_width(count, m),
     h |-> driver_height(count, m)]

\* set_driver_position(index, driver) as a step of its own: the window of
\* the driver at index is moved and resized
SetDriverPosition(index) ==
    /\ window' = [d \in DOMAIN window \cup {index} |->
                    IF d = index THEN position(index, n, monitor) ELSE window[d]]
    /\ UNCHANGED <<agentVars, mgrVars, guiVars, monVars, reads, poolVars, monitor, hist>>
    /\ UNCHANGED obsVars

\* No window has been placed
NoWindows == window = [d \in {} |-> 0]

\* form_grid has placed the count windows on the first monitor
InitWindows(count) ==
    /\ monitor = [width |-> 1920, height |-> 1080, scaling |-> 1]
    /\ window = [d \in 0 .. (count - 1) |-> position(d, count, monitor)]

----------------------------------------------------------------------------
(* Glasto: the flag and the status messages *)

pause_flag_mutant(s, d) == s

\* Glasto.pause
pause(s, d) == [s EXCEPT ![d] = FALSE]

resume_mutant(s, d) == [s EXCEPT ![d] = FALSE]

\* Glasto.resume
resume(s, d) == [s EXCEPT ![d] = TRUE]

\* f"Driver {driver_index + 1} - searching" / "... - paused"
StatusText(d, word) == <<"Driver", d + 1, word>>

StatusMessage_mutant(d, word) == <<d, StatusText(d, "paused")>>

\* The item a command or check_page puts: (driver_index, text)
StatusMessage(d, word) == <<d, StatusText(d, word)>>

\* update_queue.put never blocks: the queue of the program is unbounded.  The
\* model keeps it short by holding back a check_page put, and the start of a
\* command that puts, while MaxQueue messages wait (or, where the history of
\* the queue is kept, once MaxMessages were put); a command that has begun
\* always runs to its end, and check_for_updates empties the queue.  Once the
\* main thread is in on_closing nothing drains the queue any more and no put
\* is held back (the run-loops put a bounded number of messages then).
CanPut ==
    IF hist.on
    THEN Len(hist.sent) < MaxMessages
    ELSE cmd.op \in {"closing", "destroyed"} \/ Len(update_queue) < MaxQueue

get_nowait_mutant(q) == q[Len(q)]

\* update_queue.get_nowait(): the oldest item of the queue
get_nowait(q) == Head(q)

\* No history is kept
NoHistory ==
    hist = [on |-> FALSE, sent |-> <<>>, drained |-> <<>>,
            timing |-> FALSE, after |-> <<>>, pauses |-> FALSE, held |-> {}]

\* The history of the queue is kept from the start
InitHistory ==
    hist = [on |-> TRUE, sent |-> <<>>, drained |-> <<>>,
            timing |-> FALSE, after |-> <<>>, pauses |-> FALSE, held |-> {}]

\* The history of what every run-loop does once the stop signal is set is
\* kept: its sleeps, reloads and check_page reports, counted up to MaxCount
InitTiming(count) ==
    hist = [on |-> FALSE, sent |-> <<>>, drained |-> <<>>,
            timing |-> TRUE,
            after |-> [d \in 0 .. (count - 1) |->
                        [sleeps |-> 0, reloads |-> 0, reports |-> 0]],
            pauses |-> FALSE, held |-> {}]

\* The history of the operator's pauses is kept: held is the set of drivers
\* for which a pause_searching, pause_all or set_focus call has returned and
\* no resume_searching or resume_all has set the flag since
InitHeld ==
    hist = [on |-> FALSE, sent |-> <<>>, drained |-> <<>>,
            timing |-> FALSE, after |-> <<>>, pauses |-> TRUE, held |-> {}]

\* The history h after the pauses of `add` returned and the resumes of `remove`
Held(h, add, remove) ==
    IF h.pauses THEN [h EXCEPT !.held = (@ \cup add) \ remove] ELSE h

\* The history h after `item` was put
Sent(h, item) == IF h.on THEN [h EXCEPT !.sent = Append(@, item)] ELSE h

\* Driver d's loop does the things of `kinds` (history)
Tally(d, kinds) ==
    hist' = IF hist.timing /\ stop_event
            THEN [hist EXCEPT !.after[d] =
                    [k \in DOMAIN @ |->
                        IF k \in kinds /\ @[k] < MaxCount THEN @[k] + 1 ELSE @[k]]]
            ELSE hist

\* update_queue.put(item), with the history of puts where it is kept
QueuePut(item) ==
    /\ update_queue' = Append(update_queue, item)
    /\ hist' = Sent(hist, item)

event_toggle(e) == ~e

\* threading.Event.set
event_set(e) == TRUE

----------------------------------------------------------------------------
(* GlastoManager.start, on the execution thread *)

StartDriver_mutant ==
    /\ manager
    /\ start_k < n
    /\ pc' = [pc EXCEPT ![start_k] = "get"]
    /\ start_k' = start_k + 1
    /\ UNCHANGED <<url, searching, caller, cp_url, cp_seen, quit_calls>>
    /\ UNCHANGED <<n, stop_event, desired_page, update_queue>>
    /\ UNCHANGED <<guiVars, monVars, reads, poolVars, layVars, hist>>
    /\ UNCHANGED obsVars

\* One turn of `for driver in self.drivers`: set_entry_url, Thread.start.
\* start_managers calls start on the manager it has stored in gui.manager
StartDriver ==
    /\ manager
    /\ start_k < n
    /\ url' = [url EXCEPT ![start_k] = EntryUrl]
    /\ pc' = [pc EXCEPT ![start_k] = "get"]
    /\ start_k' = start_k + 1
    /\ UNCHANGED <<searching, caller, cp_url, cp_seen, quit_calls>>
    /\ UNCHANGED <<n, stop_event, desired_page, update_queue>>
    /\ UNCHANGED <<guiVars, monVars, reads, poolVars, layVars, hist>>
    /\ UNCHANGED obsVars

----------------------------------------------------------------------------
(* Glasto.auto_run and the check_page calls it makes, one thread per driver *)

\* Where check_page returns to in auto_run
ReturnPc(d) == IF caller[d] = "init" THEN "set_searching" ELSE "loop_stop"

\* self.get(self.url), then the call of check_page
Navigate(d) ==
    /\ pc[d] = "get"
    /\ pc' = [pc EXCEPT ![d] = "cp_read"]
    /\ caller' = [caller EXCEPT ![d] = "init"]
    /\ UNCHANGED <<url, searching, cp_url, cp_seen, quit_calls>>
    /\ UNCHANGED <<mgrVars, guiVars, monVars, reads, poolVars, layVars, hist>>
    /\ UNCHANGED obsVars

\* check_page: url = driver.current_url answers; driver_index = index(driver)
CpRead(d) ==
    /\ pc[d] = "cp_read"
    /\ \E u \in Urls :
        /\ cp_url' = [cp_url EXCEPT ![d] = u]
        /\ cp_seen' = [cp_seen EXCEPT ![d] = Has(desired_page, u)]
    /\ pc' = [pc EXCEPT ![d] = "cp_test"]
    /\ UNCHANGED <<url, searching, caller, quit_calls>>
    /\ UNCHANGED <<mgrVars, guiVars, monVars, reads, poolVars, layVars>>
    /\ Tally(d, {"reports"})
    /\ UNCHANGED obsVars

\* check_page: url = driver.current_url, on a page that stays at the entry URL
CpReadEntry(d) == CpRead(d) /\ cp_url'[d] = EntryUrl

\* check_page: driver.current_url raises; nothing in check_page or auto_run
\* catches it, so the thread ends with the exception
CpReadFail(d) ==
    /\ pc[d] = "cp_read"
    /\ pc' = [pc EXCEPT ![d] = "crashed"]
    /\ UNCHANGED <<url, searching, caller, cp_url, cp_seen, quit_calls>>
    /\ UNCHANGED <<mgrVars, guiVars, monVars, reads, poolVars, layVars>>
    /\ Tally(d, {"reports"})
    /\ UNCHANGED obsVars

\* The answers of the scenario's stub handle: the entry URL on the first call,
\* and on the second the queue URL for driver 0 and the entry URL for the rest
StubUrl(d, call) == IF call = 2 /\ d = 0 THEN QueueUrl ELSE EntryUrl

\* check_page: url = driver.current_url, answered by the stub handle, which
\* the scenario scripts for MaxStubCalls calls
CpReadStub(d) ==
    /\ pc[d] = "cp_read"
    /\ reads[d] < MaxStubCalls
    /\ reads' = [reads EXCEPT ![d] = @ + 1]
    /\ cp_url' = [cp_url EXCEPT ![d] = StubUrl(d, reads'[d])]
    /\ cp_seen' = [cp_seen EXCEPT ![d] = Has(desired_page, cp_url'[d])]
    /\ pc' = [pc EXCEPT ![d] = "cp_test"]
    /\ UNCHANGED <<url, searching, caller, quit_calls>>
    /\ UNCHANGED <<mgrVars, guiVars, monVars, poolVars, layVars>>
    /\ Tally(d, {"reports"})
    /\ UNCHANGED obsVars

CpCondition_mutant(d) == ~Has(desired_page, cp_url[d])

\* url not in self.desired_page or self.desired_page.get(url)
CpCondition(d) == ~Has(desired_page, cp_url[d]) \/ DictGet(desired_page, cp_url[d])

\* check_page: the if; a false condition returns from check_page
CpTest(d) ==
    /\ pc[d] = "cp_test"
    /\ IF CpCondition(d)
       THEN /\ pc' = [pc EXCEPT ![d] = "cp_pause"]
            /\ UNCHANGED <<cp_url, cp_seen>>
       ELSE /\ pc' = [pc EXCEPT ![d] = ReturnPc(d)]
            /\ cp_url' = [cp_url EXCEPT ![d] = NoUrl]
            /\ cp_seen' = [cp_seen EXCEPT ![d] = FALSE]
    /\ UNCHANGED <<url, searching, caller, quit_calls>>
    /\ UNCHANGED <<mgrVars, guiVars, monVars, reads, poolVars, layVars, hist>>
    /\ UNCHANGED obsVars

\* check_page -> pause_searching: self.drivers[driver_index].pause()
CpPause(d) ==
    /\ pc[d] = "cp_pause"
    /\ searching' = pause(searching, d)
    /\ pc' = [pc EXCEPT ![d] = "cp_put"]
    /\ UNCHANGED <<url, caller, cp_url, cp_seen, quit_calls>>
    /\ UNCHANGED <<mgrVars, guiVars, monVars, reads, poolVars, layVars, hist>>
    /\ UNCHANGED obsVars

\* check_page -> pause_searching: update_queue.put((driver_index, "... paused"))
CpPut(d) ==
    /\ pc[d] = "cp_put"
    /\ CanPut
    /\ QueuePut(StatusMessage(d, "paused"))
    /\ pc' = [pc EXCEPT ![d] = "cp_set"]
    /\ UNCHANGED <<url, searching, caller, cp_url, cp_seen, quit_calls>>
    /\ UNCHANGED <<n, stop_event, desired_page, start_k>>
    /\ UNCHANGED <<guiVars, monVars, reads, poolVars, layVars>>
    /\ UNCHANGED obsVars

CpSetValue_mutant == FALSE

\* The value check_page stores
CpSetValue == TRUE

\* check_page: self.desired_page[url] = True, and the return
CpSet(d) ==
    /\ pc[d] = "cp_set"
    /\ desired_page' = SetItem(desired_page, cp_url[d], CpSetValue)
    /\ pc' = [pc EXCEPT ![d] = ReturnPc(d)]
    /\ cp_url' = [cp_url EXCEPT ![d] = NoUrl]
    /\ cp_seen' = [cp_seen EXCEPT ![d] = FALSE]
    /\ UNCHANGED <<url, searching, caller, quit_calls>>
    /\ UNCHANGED <<n, stop_event, update_queue, start_k>>
    /\ UNCHANGED <<guiVars, monVars, reads, poolVars, layVars, hist>>
    /\ UNCHANGED obsVars

\* auto_run: self.searching = True
SetSearching(d) ==
    /\ pc[d] = "set_searching"
    /\ searching' = [searching EXCEPT ![d] = TRUE]
    /\ pc' = [pc EXCEPT ![d] = "loop_stop"]
    /\ UNCHANGED <<url, caller, cp_url, cp_seen, quit_calls>>
    /\ UNCHANGED <<mgrVars, guiVars, monVars, reads, poolVars, layVars, hist>>
    /\ UNCHANGED obsVars

LoopExit_mutant(d) == stop_event /\ searching[d]

LoopExit_paused_mutant(d) == stop_event /\ ~searching[d]

\* The loop ends when `not self.manager.stop_event.is_set()` is false
LoopExit(d) == stop_event

\* auto_run: the while condition
LoopStop(d) ==
    /\ pc[d] = "loop_stop"
    /\ pc' = [pc EXCEPT ![d] = IF LoopExit(d) THEN "quit" ELSE "loop_flag"]
    /\ UNCHANGED <<url, searching, caller, cp_url, cp_seen, quit_calls>>
    /\ UNCHANGED <<mgrVars, guiVars, monVars, reads, poolVars, layVars, hist>>
    /\ UNCHANGED obsVars

LoopFlag_mutant(d) ==
    /\ pc[d] = "loop_flag"
    /\ pc' = [pc EXCEPT ![d] = "reload"]
    /\ UNCHANGED <<url, searching, caller, cp_url, cp_seen, quit_calls>>
    /\ UNCHANGED <<mgrVars, guiVars, monVars, reads, poolVars, layVars, hist>>
    /\ UNCHANGED obsVars

\* auto_run: if self.searching
LoopFlag(d) ==
    /\ pc[d] = "loop_flag"
    /\ pc' = [pc EXCEPT ![d] = IF searching[d] THEN "reload" ELSE "idle_sleep"]
    /\ UNCHANGED <<url, searching, caller, cp_url, cp_seen, quit_calls>>
    /\ UNCHANGED <<mgrVars, guiVars, monVars, reads, poolVars, layVars, hist>>
    /\ UNCHANGED obsVars

\* auto_run: self.refresh(); time.sleep(refresh_time); then check_page is called
Reload(d) ==
    /\ pc[d] = "reload"
    /\ pc' = [pc EXCEPT ![d] = "cp_read"]
    /\ caller' = [caller EXCEPT ![d] = "loop"]
    /\ UNCHANGED <<url, searching, cp_url, cp_seen, quit_calls>>
    /\ UNCHANGED <<mgrVars, guiVars, monVars, reads, poolVars, layVars>>
    /\ Tally(d, {"reloads", "sleeps"})
    /\ UNCHANGED obsVars

\* auto_run: the else branch, time.sleep(refresh_time)
IdleSleep(d) ==
    /\ pc[d] = "idle_sleep"
    /\ pc' = [pc EXCEPT ![d] = "loop_stop"]
    /\ UNCHANGED <<url, searching, caller, cp_url, cp_seen, quit_calls>>
    /\ UNCHANGED <<mgrVars, guiVars, monVars, reads, poolVars, layVars>>
    /\ Tally(d, {"sleeps"})
    /\ UNCHANGED obsVars

HandleQuit_mutant(d) ==
    /\ pc[d] = "quit"
    /\ quit_calls' = [quit_calls EXCEPT ![d] = @ + 1]
    /\ pc' = [pc EXCEPT ![d] = "terminated"]
    /\ searching' = [searching EXCEPT ![d] = FALSE]
    /\ UNCHANGED <<url, caller, cp_url, cp_seen>>
    /\ UNCHANGED <<mgrVars, guiVars, monVars, reads, poolVars, layVars, hist>>
    /\ UNCHANGED obsVars

\* auto_run: self.quit() after the loop, and the thread ends
HandleQuit(d) ==
    /\ pc[d] = "quit"
    /\ quit_calls' = [quit_calls EXCEPT ![d] = @ + 1]
    /\ pc' = [pc EXCEPT ![d] = "terminated"]
    /\ UNCHANGED <<url, searching, caller, cp_url, cp_seen>>
    /\ UNCHANGED <<mgrVars, guiVars, monVars, reads, poolVars, layVars, hist>>
    /\ UNCHANGED obsVars

\* The steps of driver d's auto_run thread other than the current_url read
AutoRunStep(d) ==
    \/ Navigate(d)
    \/ CpTest(d)
    \/ CpPause(d)
    \/ CpPut(d)
    \/ CpSet(d)
    \/ SetSearching(d)
    \/ LoopStop(d)
    \/ LoopFlag(d)
    \/ Reload(d)
    \/ IdleSleep(d)
    \/ HandleQuit(d)

\* The steps of any driver's thread up to the end of its loop
AutoRunNext ==
    \/ \E d \in Drivers : Navigate(d)
    \/ \E d \in Drivers : CpTest(d)
    \/ \E d \in Drivers : CpPause(d)
    \/ \E d \in Drivers : CpPut(d)
    \/ \E d \in Drivers : CpSet(d)
    \/ \E d \in Drivers : SetSearching(d)
    \/ \E d \in Drivers : LoopStop(d)
    \/ \E d \in Drivers : LoopFlag(d)
    \/ \E d \in Drivers : Reload(d)
    \/ \E d \in Drivers : IdleSleep(d)

----------------------------------------------------------------------------
(* The manager's commands, run as callbacks of the Tk main thread.  cmd is  *)
(* the callback in progress: its method, the driver index it is at and the  *)
(* statement it executes next.                                              *)

Idle == [op |-> "idle", i |-> NoDriver, step |-> "none"]

IsResume(op) == op \in {"resume", "resume_all"}

IsAll(op) == op \in {"resume_all", "pause_all"}

\* resume_searching / pause_searching, first statement:
\* self.drivers[driver_index].resume() or .pause()
CallFlag(op, d) ==
    /\ searching' = IF IsResume(op) THEN resume(searching, d) ELSE pause(searching, d)
    /\ cmd' = [op |-> op, i |-> d, step |-> "put"]
    /\ hist' = Held(hist, {}, IF IsResume(op) THEN {d} ELSE {})
    /\ UNCHANGED <<url, pc, caller, cp_url, cp_seen, quit_calls>>
    /\ UNCHANGED <<mgrVars, maximized, labels, checkboxes, monVars, reads, poolVars, layVars>>
    /\ UNCHANGED obsVars

\* GlastoManager.resume_searching(d), called from the "Resume" button
ResumeSearching(d) == cmd = Idle /\ CanPut /\ CallFlag("resume", d)

\* GlastoManager.pause_searching(d), called from the control surface
PauseSearching(d) == cmd = Idle /\ CanPut /\ CallFlag("pause", d)

\* GlastoManager.resume_all, first turn of its loop
ResumeAll == cmd = Idle /\ CanPut /\ n > 0 /\ CallFlag("resume_all", 0)

\* GlastoManager.pause_all, first turn of its loop
PauseAll == cmd = Idle /\ CanPut /\ n > 0 /\ CallFlag("pause_all", 0)

\* resume_all / pause_all: a later turn of `for driver_index in range(...)`
AllNext == cmd.step = "flag" /\ CallFlag(cmd.op, cmd.i)

\* resume_searching / pause_searching, second statement: update_queue.put,
\* then the next turn of the caller's loop or the end of the callback
CmdPut ==
    /\ cmd.step = "put"
    /\ update_queue' = Append(update_queue,
            StatusMessage(cmd.i, IF IsResume(cmd.op) THEN "searching" ELSE "paused"))
    /\ cmd' = IF IsAll(cmd.op) /\ cmd.i + 1 < n
              THEN [op |-> cmd.op, i |-> cmd.i + 1, step |-> "flag"]
              ELSE Idle
    /\ hist' = Held(Sent(hist, StatusMessage(cmd.i, IF IsResume(cmd.op) THEN "searching" ELSE "paused")),
                    IF cmd' # Idle \/ IsResume(cmd.op) THEN {}
                    ELSE IF IsAll(cmd.op) THEN Drivers ELSE {cmd.i},
                    {})
    /\ UNCHANGED <<agentVars, n, stop_event, desired_page, start_k>>
    /\ UNCHANGED <<maximized, labels, checkboxes, monVars, reads, poolVars, layVars>>
    /\ UNCHANGED obsVars

\* GlastoManager.set_focus(d), first statement: self.drivers[d].pause()
SetFocus(d) ==
    /\ cmd = Idle
    /\ searching' = pause(searching, d)
    /\ cmd' = [op |-> "focus", i |-> d, step |-> "grid"]
    /\ UNCHANGED <<url, pc, caller, cp_url, cp_seen, quit_calls>>
    /\ UNCHANGED <<mgrVars, maximized, labels, checkboxes, monVars, reads, poolVars, layVars, hist>>
    /\ UNCHANGED obsVars

\* Glasto.set_focus: self.manager.form_grid() puts every window in its cell
FocusFormGrid ==
    /\ cmd.step = "grid"
    /\ maximized' = NoDriver
    /\ cmd' = [cmd EXCEPT !.step = "max"]
    /\ window' = [d \in Drivers |-> position(d, n, monitor)]
    /\ UNCHANGED <<agentVars, mgrVars, labels, checkboxes, monVars, reads, poolVars, monitor, hist>>
    /\ UNCHANGED obsVars

\* Glasto.set_focus: self.maximize_window() and switch_to.window; on a handle
\* that has quit the call raises and the callback ends
FocusMaximize ==
    /\ cmd.step = "max"
    /\ maximized' = IF quit_calls[cmd.i] = 0 THEN cmd.i ELSE maximized
    /\ cmd' = Idle
    /\ hist' = Held(hist, {cmd.i}, {})
    /\ UNCHANGED <<agentVars, mgrVars, labels, checkboxes, monVars, reads, poolVars, layVars>>
    /\ UNCHANGED obsVars

Quit_mutant ==
    /\ cmd = Idle
    /\ stop_event' = event_set(stop_event)
    /\ built' = <<>>
    /\ UNCHANGED <<agentVars, n, desired_page, update_queue, start_k>>
    /\ UNCHANGED <<guiVars, monVars, reads, layVars, hist>>
    /\ UNCHANGED <<pool_pc, pool_m, pool_fail, pool_next, task, calls,
                   pool_threads, pool_idle, pool_errors, pool_fn>>
    /\ UNCHANGED obsVars

\* GlastoManager.quit: self.stop_event.set()
Quit ==
    /\ cmd = Idle
    /\ stop_event' = event_set(stop_event)
    /\ UNCHANGED <<agentVars, n, desired_page, update_queue, start_k>>
    /\ UNCHANGED <<guiVars, monVars, reads, poolVars, layVars, hist>>
    /\ UNCHANGED obsVars

\* The main loop has ended: the main thread runs no callback any more
Destroyed == [op |-> "destroyed", i |-> NoDriver, step |-> "none"]

\* GlastoGUI.on_closing up to the join: self.event.set(); without a manager
\* the window is destroyed at once, with one manager.quit() sets the stop signal
OnClosing ==
    /\ cmd = Idle
    /\ event' = event_set(event)
    /\ IF manager
       THEN /\ stop_event' = event_set(stop_event)
            /\ cmd' = [op |-> "closing", i |-> NoDriver, step |-> "join"]
       ELSE /\ stop_event' = stop_event
            /\ cmd' = Destroyed
    /\ UNCHANGED <<agentVars, n, desired_page, update_queue, start_k>>
    /\ UNCHANGED <<maximized, labels, checkboxes, monVars, reads, poolVars, layVars, hist>>
    /\ UNCHANGED <<manager, polling>>

\* on_closing: self.execution_thread.join() returns when start_managers has
\* returned, that is when manager.start has started every thread; self.destroy()
CloseJoin ==
    /\ cmd.step = "join"
    /\ start_k = n
    /\ cmd' = Destroyed
    /\ UNCHANGED <<agentVars, mgrVars, maximized, labels, checkboxes, monVars, reads>>
    /\ UNCHANGED <<poolVars, layVars, hist, obsVars>>

\* start_managers: self.manager = GlastoManager(...), the store of the
\* reference once the constructor has returned
PublishManager ==
    /\ pool_pc = "launched"
    /\ ~manager
    /\ manager' = TRUE
    /\ UNCHANGED <<agentVars, mgrVars, guiVars, monVars, reads, poolVars, layVars, hist>>
    /\ UNCHANGED <<event, polling>>

\* GlastoGUI.check_for_updates, one turn of its loop: get_nowait, label.config
\* (the callback shares the main thread with the commands; a turn of it
\* commutes with a command's statements, which only append to the queue).
\* driver_info has a row per label: an index outside it raises IndexError,
\* which `except Empty` does not catch, so the callback ends before its
\* self.after(100, ...) and is not scheduled again
CheckForUpdates ==
    /\ cmd = Idle
    /\ polling > 0
    /\ update_queue # <<>>
    /\ IF get_nowait(update_queue)[1] \in DOMAIN labels
       THEN /\ labels' = [labels EXCEPT ![get_nowait(update_queue)[1]] = get_nowait(update_queue)[2]]
            /\ polling' = polling
       ELSE /\ labels' = labels
            /\ polling' = polling - 1
    /\ update_queue' = Tail(update_queue)
    /\ hist' = IF hist.on
               THEN [hist EXCEPT !.drained = Append(@, get_nowait(update_queue))]
               ELSE hist
    /\ UNCHANGED <<agentVars, n, stop_event, desired_page, start_k>>
    /\ UNCHANGED <<cmd, maximized, checkboxes, monVars, reads, poolVars, layVars>>
    /\ UNCHANGED <<manager, event>>

\* The operator clicks checkbox k: Tk flips its IntVar
ToggleCheckbox(k) ==
    /\ cmd = Idle
    /\ k \in 1 .. Len(checkboxes)
    /\ checkboxes' = [checkboxes EXCEPT ![k].var = ~@]
    /\ UNCHANGED <<agentVars, mgrVars, cmd, maximized, labels, monVars, reads, poolVars, layVars, hist>>
    /\ UNCHANGED obsVars

----------------------------------------------------------------------------
(* GlastoGUI.monitor_urls and update_checkboxes, on the url thread.  The    *)
(* dict passed to update_checkboxes is manager.desired_page itself, so the  *)
(* stores into `data` are stores into the table that check_page reads.      *)

\* monitor_urls: `if self.manager`, the loop over the drivers' current_url,
\* which touches the url labels only, and the call of update_checkboxes
MonitorWake ==
    /\ mon_pc = "sleep"
    /\ ~event
    /\ manager
    /\ mon_pc' = "write_back"
    /\ mon_k' = 1
    /\ UNCHANGED <<agentVars, mgrVars, guiVars, mon_size, reads, poolVars, layVars, hist>>
    /\ UNCHANGED obsVars

WriteBackValue_mutant(k) == ~checkboxes[k].var

\* bool(self.checkvars[i].get())
WriteBackValue(k) == checkboxes[k].var

\* update_checkboxes, one turn of the first loop:
\* data[checkbox.cget("text")] = bool(self.checkvars[i].get())
WriteBack ==
    /\ mon_pc = "write_back"
    /\ mon_k <= Len(checkboxes)
    /\ desired_page' = SetItem(desired_page, checkboxes[mon_k].text, WriteBackValue(mon_k))
    /\ mon_k' = mon_k + 1
    /\ UNCHANGED <<agentVars, n, stop_event, update_queue, start_k>>
    /\ UNCHANGED <<guiVars, mon_pc, mon_size, reads, poolVars, layVars, hist>>
    /\ UNCHANGED obsVars

\* update_checkboxes: the first loop is over; self.manager.desired_page = data
\* stores the same dict, the widgets are destroyed, the lists cleared and the
\* iteration of data.items() begins
ClearCheckboxes ==
    /\ mon_pc = "write_back"
    /\ mon_k > Len(checkboxes)
    /\ checkboxes' = <<>>
    /\ mon_pc' = "rebuild"
    /\ mon_k' = 1
    /\ mon_size' = Len(desired_page)
    /\ UNCHANGED <<agentVars, mgrVars, cmd, maximized, labels, reads, poolVars, layVars, hist>>
    /\ UNCHANGED obsVars

\* update_checkboxes, one turn of `for ... in enumerate(data.items())`: a
\* checkbox is made for the next item; the iterator raises RuntimeError when
\* the dict changed size since the iteration began, which ends the thread
Rebuild ==
    /\ mon_pc = "rebuild"
    /\ IF Len(desired_page) # mon_size
       THEN /\ mon_pc' = "crashed"
            /\ UNCHANGED <<checkboxes, mon_k>>
       ELSE IF mon_k <= Len(desired_page)
       THEN /\ checkboxes' = Append(checkboxes,
                    [text |-> desired_page[mon_k].key, var |-> desired_page[mon_k].value])
            /\ mon_k' = mon_k + 1
            /\ UNCHANGED mon_pc
       ELSE /\ mon_pc' = "sleep"
            /\ UNCHANGED <<checkboxes, mon_k>>
    /\ UNCHANGED <<agentVars, mgrVars, cmd, maximized, labels, mon_size, reads, poolVars, layVars, hist>>
    /\ UNCHANGED obsVars

----------------------------------------------------------------------------
(* threaded_execution(elements, function), as GlastoManager.__init__ calls  *)
(* it to build the drivers: elements are 1 .. pool_m in order, `function`   *)
(* constructs a driver and appends it to the list, and raises on the        *)
(* elements of pool_fail.                                                   *)

Elements == 1 .. pool_m

Finished(e) == task[e] \in {"done", "failed"}

Running == {e \in Elements : task[e] = "running"}

SubmitLoopDone_mutant == pool_next >= pool_m

\* `for element in elements` has no element left
SubmitLoopDone == pool_next > pool_m

CanSpawn_mutant == TRUE

\* ThreadPoolExecutor(max_workers=12): a thread is created only below the limit
CanSpawn == pool_threads < MaxWorkers

\* One turn of the for loop: executor.submit queues the work item, then
\* _adjust_thread_count takes an idle worker or creates a thread
PoolSubmit ==
    /\ pool_pc = "submit"
    /\ ~SubmitLoopDone
    /\ task' = [task EXCEPT ![pool_next] = "queued"]
    /\ pool_next' = pool_next + 1
    /\ IF pool_idle > 0
       THEN pool_idle' = pool_idle - 1 /\ UNCHANGED pool_threads
       ELSE IF CanSpawn
       THEN pool_threads' = pool_threads + 1 /\ UNCHANGED pool_idle
       ELSE UNCHANGED <<pool_threads, pool_idle>>
    /\ UNCHANGED <<pool_pc, pool_m, pool_fail, calls, built, pool_errors>>
    /\ UNCHANGED <<agentVars, mgrVars, guiVars, monVars, reads, pool_fn, layVars, hist>>
    /\ UNCHANGED obsVars

\* A worker thread that runs no work item takes the oldest one of the queue
\* and calls function(*arguments)
PoolStart(e) ==
    /\ task[e] = "queued"
    /\ \A f \in Elements : task[f] = "queued" => e <= f
    /\ Cardinality(Running) < pool_threads
    /\ task' = [task EXCEPT ![e] = "running"]
    /\ calls' = [calls EXCEPT ![e] = @ + 1]
    /\ UNCHANGED <<pool_pc, pool_m, pool_fail, pool_next, pool_threads, pool_idle,
                   built, pool_errors>>
    /\ UNCHANGED <<agentVars, mgrVars, guiVars, monVars, reads, pool_fn, layVars, hist>>
    /\ UNCHANGED obsVars

LaunchAppend_mutant(b, e) == Append(b, e)

\* lambda x: self.drivers.append(Glasto(self, options=chrome_options)): the
\* argument is evaluated first, so a constructor that raises appends nothing
LaunchAppend(b, e) == IF e \in pool_fail THEN b ELSE Append(b, e)

\* The call ends: the lambda appended the driver it constructed, or raised and
\* the work item stored the exception in its future; the worker is idle again
PoolFinish(e) ==
    /\ pool_fn = "launch"
    /\ task[e] = "running"
    /\ task' = [task EXCEPT ![e] = IF e \in pool_fail THEN "failed" ELSE "done"]
    /\ built' = LaunchAppend(built, e)
    /\ pool_idle' = pool_idle + 1
    /\ UNCHANGED <<pool_pc, pool_m, pool_fail, pool_next, calls, pool_threads,
                   pool_errors>>
    /\ UNCHANGED <<agentVars, mgrVars, guiVars, monVars, reads, pool_fn, layVars, hist>>
    /\ UNCHANGED obsVars

\* The call ends when `function` is set_driver_position, as form_grid passes
\* it: the window is placed, or the handle call raised; the list is not touched
PoolFinishPosition(e) ==
    /\ pool_fn = "position"
    /\ task[e] = "running"
    /\ task' = [task EXCEPT ![e] = IF e \in pool_fail THEN "failed" ELSE "done"]
    /\ pool_idle' = pool_idle + 1
    /\ UNCHANGED <<pool_pc, pool_m, pool_fail, pool_next, calls, pool_threads,
                   built, pool_errors>>
    /\ UNCHANGED <<agentVars, mgrVars, guiVars, monVars, reads, pool_fn, layVars, hist>>
    /\ UNCHANGED obsVars

\* The for loop is over and the with block is left
PoolLeaveWith ==
    /\ pool_pc = "submit"
    /\ SubmitLoopDone
    /\ pool_pc' = "shutdown"
    /\ UNCHANGED <<pool_m, pool_fail, pool_next, task, calls, pool_threads,
                   pool_idle, built, pool_errors>>
    /\ UNCHANGED <<agentVars, mgrVars, guiVars, monVars, reads, pool_fn, layVars, hist>>
    /\ UNCHANGED obsVars

\* executor.__exit__ is shutdown(wait=True): it joins the workers, which end
\* when the queue holds no work item and none is running
ShutdownCanReturn == \A e \in Elements : task[e] # "none" => Finished(e)

\* shutdown returns, and `for future in futures` begins
PoolShutdown ==
    /\ pool_pc = "shutdown"
    /\ ShutdownCanReturn
    /\ pool_pc' = "collect"
    /\ pool_next' = 1
    /\ UNCHANGED <<pool_m, pool_fail, task, calls, pool_threads, pool_idle,
                   built, pool_errors>>
    /\ UNCHANGED <<agentVars, mgrVars, guiVars, monVars, reads, pool_fn, layVars, hist>>
    /\ UNCHANGED obsVars

FutureRaises_mutant(e) == task[e] = "failed"

\* future.exception() hands the stored exception back as a value; it does not
\* raise it in the caller (future.result() would)
FutureRaises(e) == FALSE

\* One turn of `for future in futures`: future.exception() waits for the
\* future and the outcome is logged
PoolCollect ==
    /\ pool_pc = "collect"
    /\ pool_next <= pool_m
    /\ task[pool_next] # "none" => Finished(pool_next)
    /\ IF FutureRaises(pool_next)
       THEN /\ pool_pc' = "raised"
            /\ UNCHANGED <<pool_next, pool_errors>>
       ELSE /\ pool_errors' = IF task[pool_next] = "failed"
                              THEN pool_errors \cup {pool_next}
                              ELSE pool_errors
            /\ pool_next' = pool_next + 1
            /\ UNCHANGED pool_pc
    /\ UNCHANGED <<pool_m, pool_fail, task, calls, pool_threads, pool_idle, built>>
    /\ UNCHANGED <<agentVars, mgrVars, guiVars, monVars, reads, pool_fn, layVars, hist>>
    /\ UNCHANGED obsVars

\* threaded_execution returns
PoolReturn ==
    /\ pool_pc = "collect"
    /\ pool_next > pool_m
    /\ pool_pc' = "returned"
    /\ UNCHANGED <<pool_m, pool_fail, pool_next, task, calls, pool_threads,
                   pool_idle, built, pool_errors>>
    /\ UNCHANGED <<agentVars, mgrVars, guiVars, monVars, reads, pool_fn, layVars, hist>>
    /\ UNCHANGED obsVars

\* threaded_execution is called with m elements, `function` raising on fail
InitPool(m, fail) ==
    /\ pool_pc = "submit"
    /\ pool_m = m
    /\ pool_fail = fail
    /\ pool_next = 1
    /\ task = [e \in 1 .. m |-> "none"]
    /\ calls = [e \in 1 .. m |-> 0]
    /\ pool_threads = 0
    /\ pool_idle = 0
    /\ built = <<>>
    /\ pool_errors = {}
    /\ pool_fn = "launch"

\* GlastoManager.__init__, self.form_grid(): the launch call has returned and
\* threaded_execution is called again, on the drivers that were built, with
\* set_driver_position, which raises on any of them
FormGrid ==
    /\ pool_pc = "returned"
    /\ pool_fn = "launch"
    /\ pool_fn' = "position"
    /\ pool_pc' = "submit"
    /\ pool_m' = Len(built)
    /\ pool_fail' \in SUBSET (1 .. Len(built))
    /\ pool_next' = 1
    /\ task' = [e \in 1 .. Len(built) |-> "none"]
    /\ calls' = [e \in 1 .. Len(built) |-> 0]
    /\ pool_threads' = 0
    /\ pool_idle' = 0
    /\ pool_errors' = {}
    /\ UNCHANGED built
    /\ UNCHANGED <<agentVars, mgrVars, guiVars, monVars, reads, layVars, hist>>
    /\ UNCHANGED obsVars

\* GlastoManager.__init__, the statements after form_grid: the constructor
\* returns to its caller
InitDone ==
    /\ pool_pc = "returned"
    /\ pool_fn = "position"
    /\ pool_pc' = "launched"
    /\ UNCHANGED <<pool_m, pool_fail, pool_next, task, calls, pool_threads,
                   pool_idle, built, pool_errors, pool_fn>>
    /\ UNCHANGED <<agentVars, mgrVars, guiVars, monVars, reads, layVars, hist>>
    /\ UNCHANGED obsVars

\* form_grid calls threaded_execution(enumerate(self.drivers), ...) on a list
\* of count drivers
InitGrid(count, fail) ==
    /\ pool_pc = "submit"
    /\ pool_m = count
    /\ pool_fail = fail
    /\ pool_next = 1
    /\ task = [e \in 1 .. count |-> "none"]
    /\ calls = [e \in 1 .. count |-> 0]
    /\ pool_threads = 0
    /\ pool_idle = 0
    /\ built = [e \in 1 .. count |-> e]
    /\ pool_errors = {}
    /\ pool_fn = "position"

\* GlastoManager.__init__ has returned: count drivers launched and placed,
\* no constructor and no placement having failed
PoolReturned(count) ==
    /\ pool_pc = "launched"
    /\ pool_m = count
    /\ pool_fail = {}
    /\ pool_next = count + 1
    /\ task = [e \in 1 .. count |-> "done"]
    /\ calls = [e \in 1 .. count |-> 1]
    /\ pool_threads = count
    /\ pool_idle = count
    /\ built = [e \in 1 .. count |-> e]
    /\ pool_errors = {}
    /\ pool_fn = "position"

----------------------------------------------------------------------------
(* The state after GlastoManager(interface, driver_count) has returned in   *)
(* start_managers and GlastoGUI.start has made the rows of driver_info      *)

\* The drivers as their constructors leave them, no thread started
InitDrivers(count) ==
    /\ n = count
    /\ url = [d \in 0 .. (count - 1) |-> NoUrl]
    /\ searching = [d \in 0 .. (count - 1) |-> FALSE]
    /\ pc = [d \in 0 .. (count - 1) |-> "idle"]
    /\ caller = [d \in 0 .. (count - 1) |-> "init"]
    /\ cp_url = [d \in 0 .. (count - 1) |-> NoUrl]
    /\ cp_seen = [d \in 0 .. (count - 1) |-> FALSE]
    /\ quit_calls = [d \in 0 .. (count - 1) |-> 0]
    /\ stop_event = FALSE
    /\ desired_page = <<>>
    /\ update_queue = <<>>
    /\ start_k = 0
    /\ cmd = Idle
    /\ maximized = NoDriver
    /\ checkboxes = <<>>
    /\ mon_pc = "sleep"
    /\ mon_k = 1
    /\ mon_size = 0
    /\ reads = [d \in 0 .. (count - 1) |-> 0]
    /\ event = FALSE

\* GlastoGUI.start has made `rows` rows of driver_info, each label reading
\* "Driver k - searching"
InitRows(rows) == labels = [d \in 0 .. (rows - 1) |-> StatusText(d, "searching")]

\* The drivers, a row for each, the manager stored and one drain scheduled
InitFleet(count) ==
    /\ InitDrivers(count)
    /\ InitRows(count)
    /\ manager = TRUE
    /\ polling = 1

InitManager(count) == InitFleet(count) /\ PoolReturned(count) /\ InitWindows(count)

Init == InitManager(NumDrivers) /\ NoHistory

\* The fleet under the operator's commands: the run-loops, start, the
\* commands of the control surface and the status drain
Next ==
    \/ StartDriver
    \/ AutoRunNext
    \/ \E d \in Drivers : HandleQuit(d)
    \/ \E d \in Drivers : CpRead(d)
    \/ \E d \in Drivers : CpReadFail(d)
    \/ \E d \in Drivers : ResumeSearching(d)
    \/ \E d \in Drivers : PauseSearching(d)
    \/ ResumeAll
    \/ PauseAll
    \/ AllNext
    \/ CmdPut
    \/ Quit
    \/ CheckForUpdates

Spec == Init /\ [][Next]_vars

\* The fleet under the observer: the run-loops, start, quit, the status
\* drain, the url thread's table update and the operator's checkbox clicks
NextTable ==
    \/ StartDriver
    \/ AutoRunNext
    \/ \E d \in Drivers : HandleQuit(d)
    \/ \E d \in Drivers : CpRead(d)
    \/ \E d \in Drivers : CpReadFail(d)
    \/ Quit
    \/ CheckForUpdates
    \/ \E k \in 1 .. Len(checkboxes) : ToggleCheckbox(k)
    \/ MonitorWake
    \/ WriteBack
    \/ ClearCheckboxes
    \/ Rebuild

SpecTable == Init /\ [][NextTable]_vars

\* Shutdown with every handle call returning and the page staying at the
\* entry URL: pause and resume commands at any moment, quit at any moment
NextLive ==
    \/ StartDriver
    \/ AutoRunNext
    \/ \E d \in Drivers : HandleQuit(d)
    \/ \E d \in Drivers : CpReadEntry(d)
    \/ \E d \in Drivers : ResumeSearching(d)
    \/ \E d \in Drivers : PauseSearching(d)
    \/ CmdPut
    \/ Quit
    \/ CheckForUpdates

\* Every thread that can run does: each auto_run thread and the main thread,
\* which runs the callback it is in to its end and check_for_updates when it
\* is due.  The operator's commands are under no obligation.  A run-loop's
\* put is never blocked in the program, so a loop held back here by the bound
\* on the queue runs as soon as the queue has room (SF).
FairLive ==
    /\ WF_vars(CmdPut \/ CheckForUpdates)
    /\ \A d \in 0 .. (NumDrivers - 1) : SF_vars(AutoRunStep(d) \/ CpReadEntry(d))

SpecLive == Init /\ [][NextLive]_vars /\ FairLive

\* Every operation of the control surface on a fleet whose pages stay at the
\* entry URL: start, pause, resume, pause_all, resume_all, set_focus, quit
NextControl ==
    \/ StartDriver
    \/ AutoRunNext
    \/ \E d \in Drivers : HandleQuit(d)
    \/ \E d \in Drivers : CpReadEntry(d)
    \/ \E d \in Drivers : ResumeSearching(d)
    \/ \E d \in Drivers : PauseSearching(d)
    \/ ResumeAll
    \/ PauseAll
    \/ AllNext
    \/ CmdPut
    \/ \E d \in Drivers : SetFocus(d)
    \/ FocusFormGrid
    \/ FocusMaximize
    \/ Quit
    \/ CheckForUpdates

SpecControl == Init /\ [][NextControl]_vars

\* The status queue with its history kept: the run-loops' reports, every
\* command that puts a message, and the drain
NextQueue ==
    \/ StartDriver
    \/ AutoRunNext
    \/ \E d \in Drivers : CpReadEntry(d)
    \/ \E d \in Drivers : ResumeSearching(d)
    \/ \E d \in Drivers : PauseSearching(d)
    \/ ResumeAll
    \/ PauseAll
    \/ AllNext
    \/ CmdPut
    \/ CheckForUpdates

InitQueue == InitManager(NumDrivers) /\ InitHistory

SpecQueue == InitQueue /\ [][NextQueue]_vars

\* Shutdown with its history kept: the run-loops on pages that stay at the
\* entry URL, pause and resume commands at any moment, quit at any moment
NextShutdown ==
    \/ StartDriver
    \/ AutoRunNext
    \/ \E d \in Drivers : HandleQuit(d)
    \/ \E d \in Drivers : CpReadEntry(d)
    \/ \E d \in Drivers : ResumeSearching(d)
    \/ \E d \in Drivers : PauseSearching(d)
    \/ CmdPut
    \/ Quit
    \/ CheckForUpdates

InitShutdown == InitManager(NumDrivers) /\ InitTiming(NumDrivers)

SpecShutdown == InitShutdown /\ [][NextShutdown]_vars

\* The scenario: BaseCount drivers on the stub handle, no operator
NextScenario ==
    \/ StartDriver
    \/ AutoRunNext
    \/ \E d \in Drivers : CpReadStub(d)
    \/ CheckForUpdates

InitScenario == InitManager(BaseCount) /\ NoHistory

SpecScenario == InitScenario /\ [][NextScenario]_vars

\* threaded_execution alone: any number of elements up to MaxTasks, `function`
\* raising on any set of them
InitPoolAny ==
    /\ InitFleet(0)
    /\ InitWindows(0)
    /\ NoHistory
    /\ \E m \in 0 .. MaxTasks : \E fail \in SUBSET (1 .. m) : InitPool(m, fail)

NextPool ==
    \/ PoolSubmit
    \/ \E e \in Elements : PoolStart(e)
    \/ \E e \in Elements : PoolFinish(e)
    \/ PoolLeaveWith
    \/ PoolShutdown
    \/ PoolCollect
    \/ PoolReturn

SpecPool == InitPoolAny /\ [][NextPool]_vars

\* GlastoManager.__init__ from the launch to its return: the launch call of
\* threaded_execution, form_grid's call, and the return
NextLaunch ==
    \/ PoolSubmit
    \/ \E e \in Elements : PoolStart(e)
    \/ \E e \in Elements : PoolFinish(e)
    \/ \E e \in Elements : PoolFinishPosition(e)
    \/ PoolLeaveWith
    \/ PoolShutdown
    \/ PoolCollect
    \/ PoolReturn
    \/ FormGrid
    \/ InitDone

SpecLaunch == InitPoolAny /\ [][NextLaunch]_vars

\* form_grid on a fleet larger than the pool: more elements than workers
InitPoolWide ==
    \E count \in {MaxWorkers, MaxWorkers + ExtraTasks} :
        InitFleet(count) /\ InitGrid(count, {}) /\ InitWindows(count) /\ NoHistory

NextPoolWide ==
    \/ PoolSubmit
    \/ \E e \in Elements : PoolStart(e)
    \/ \E e \in Elements : PoolFinishPosition(e)
    \/ PoolLeaveWith
    \/ PoolShutdown
    \/ PoolCollect
    \/ PoolReturn

SpecPoolWide == InitPoolWide /\ [][NextPoolWide]_vars

\* set_driver_position on its own: a fleet of 1 .. MaxTotal drivers on any of
\* the monitors, the windows placed in any order, any number of times
InitLayout ==
    \E count \in 1 .. MaxTotal :
        /\ InitFleet(count)
        /\ PoolReturned(count)
        /\ monitor \in Monitors
        /\ NoWindows
        /\ NoHistory

NextLayout == \E index \in Drivers : SetDriverPosition(index)

SpecLayout == InitLayout /\ [][NextLayout]_vars

\* The operator's pauses with their history kept: the run-loops on pages that
\* stay at the entry URL, and every command that pauses or resumes
NextPauses ==
    \/ StartDriver
    \/ AutoRunNext
    \/ \E d \in Drivers : CpReadEntry(d)
    \/ \E d \in Drivers : ResumeSearching(d)
    \/ \E d \in Drivers : PauseSearching(d)
    \/ ResumeAll
    \/ PauseAll
    \/ AllNext
    \/ CmdPut
    \/ \E d \in Drivers : SetFocus(d)
    \/ FocusFormGrid
    \/ FocusMaximize
    \/ CheckForUpdates

InitPauses == InitManager(NumDrivers) /\ InitHeld

SpecPauses == InitPauses /\ [][NextPauses]_vars

\* Start was pressed twice while the first fleet was being launched, the
\* second time with a smaller driver count: GlastoGUI.start has rebuilt
\* driver_info with fewer rows than the first fleet has drivers and has
\* scheduled a second drain; the first fleet reports on the shared queue
InitStale ==
    /\ InitDrivers(NumDrivers)
    /\ InitRows(NumDrivers - 1)
    /\ manager = TRUE
    /\ polling = 2
    /\ PoolReturned(NumDrivers)
    /\ InitWindows(NumDrivers)
    /\ NoHistory

NextStale ==
    \/ StartDriver
    \/ AutoRunNext
    \/ \E d \in Drivers : CpRead(d)
    \/ CheckForUpdates

SpecStale == InitStale /\ [][NextStale]_vars

\* Start has just been pressed: driver_info has its rows, the drain is
\* scheduled and the execution thread is entering GlastoManager(...), whose
\* launch call constructs the drivers; gui.manager is still None
InitClosing ==
    /\ InitDrivers(NumDrivers)
    /\ InitRows(NumDrivers)
    /\ manager = FALSE
    /\ polling = 1
    /\ InitPool(NumDrivers, {})
    /\ InitWindows(0)
    /\ NoHistory

\* The execution thread from the launch to the end of start, the pool's
\* workers, the run-loops, the drain, and the operator closing the window
NextClosing ==
    \/ NextLaunch
    \/ PublishManager
    \/ StartDriver
    \/ AutoRunNext
    \/ \E d \in Drivers : HandleQuit(d)
    \/ \E d \in Drivers : CpReadEntry(d)
    \/ CheckForUpdates
    \/ OnClosing
    \/ CloseJoin

\* Every thread that can run does: the execution thread and the pool's
\* workers, each auto_run thread, and the main thread inside on_closing.  The
\* operator is under no obligation to close the window.
FairClosing ==
    /\ WF_vars(NextLaunch \/ PublishManager \/ StartDriver)
    /\ WF_vars(CloseJoin \/ CheckForUpdates)
    /\ \A d \in 0 .. (NumDrivers - 1) : SF_vars(AutoRunStep(d) \/ CpReadEntry(d))

SpecClosing == InitClosing /\ [][NextClosing]_vars /\ FairClosing

\* The calling thread and the worker threads are scheduled
FairPool == WF_vars(NextPool)

SpecPoolLive == InitPoolAny /\ [][NextPool]_vars /\ FairPool

----------------------------------------------------------------------------
(* Positions of an auto_run thread *)

\* Inside the while loop, between two check_page calls
LoopPcs == {"loop_stop", "loop_flag", "reload", "idle_sleep"}

\* The thread has ended
EndedPcs == {"terminated", "crashed"}

\* The step in which check_page returns to auto_run
CheckPageReturns(d) ==
    /\ pc[d] \in {"cp_test", "cp_set"}
    /\ pc'[d] \in {"set_searching", "loop_stop"}

\* A statement of the main thread's callback is executed
MainThreadStep == cmd' # cmd

----------------------------------------------------------------------------
(* C1 *)

\* C1: under SpecLive (every handle call returns, fair scheduling), once the
\* stop signal is set on a fleet that start() has started, every driver's
\* run-loop reaches Terminated, whatever pause and resume commands arrive
\* before or after quit().
QuitTerminatesAll ==
    (stop_event /\ start_k = n) ~> (\A d \in Drivers : pc[d] = "terminated")

\* C1 witness: both loops have terminated, one that was searching and one
\* that was paused when it saw the stop signal.
TerminatedSearchingAndPaused ==
    /\ stop_event
    /\ \A d \in Drivers : pc[d] = "terminated" /\ quit_calls[d] = 1
    /\ searching[0]
    /\ ~searching[1]

----------------------------------------------------------------------------
(* C2 *)

----------------------------------------------------------------------------
(* C3 *)

\* C3 as claimed: an entry of the table that is true stays true in every step.
TrueEntriesStayTrue ==
    [][\A u \in Urls : DictGet(desired_page, u) => DictGet(desired_page', u)]_vars

\* C3 amended: no key is ever removed, and a true entry becomes false only in
\* the write-back turn of update_checkboxes for a checkbox of that URL which
\* the operator has unticked; no run-loop step and no command unsets an entry.
OnlyUntickedWriteBackUnsets ==
    [][/\ Keys(desired_page) \subseteq Keys(desired_page')
       /\ \A u \in Urls :
            (DictGet(desired_page, u) /\ ~DictGet(desired_page', u)) =>
                /\ mon_pc = "write_back"
                /\ mon_k <= Len(checkboxes)
                /\ mon_k' = mon_k + 1
                /\ checkboxes[mon_k].text = u
                /\ ~checkboxes[mon_k].var
                /\ pc' = pc]_vars

\* C3 witness: an entry that check_page made true has been written back false.
EntryUnsetByWriteBack ==
    /\ Has(desired_page, EntryUrl)
    /\ ~DictGet(desired_page, EntryUrl)
    /\ mon_pc = "write_back"
    /\ mon_k > 1

----------------------------------------------------------------------------
(* C4 *)

\* Every driver has made its second report and is back in its loop
AfterCycle2 == \A d \in Drivers : reads[d] = 2 /\ pc[d] \in LoopPcs

\* C4 as claimed: after cycle 2 the queue URL is flagged, driver 0 is paused
\* and drivers 1, 2 and 3 are still searching.
ScenarioOthersSearching ==
    AfterCycle2 =>
        /\ DictGet(desired_page, QueueUrl)
        /\ ~searching[0]
        /\ \A d \in Drivers \ {0} : searching[d]

\* C4 amended: after cycle 2 the queue URL is flagged and driver 0 is paused,
\* and drivers 1, 2 and 3 are paused as well: cycle 1 flagged the entry URL,
\* so their cycle-2 reports of it pause them.
ScenarioAllPaused ==
    AfterCycle2 =>
        /\ DictGet(desired_page, QueueUrl)
        /\ DictGet(desired_page, EntryUrl)
        /\ \A d \in Drivers : ~searching[d]

\* C4 witness: the four drivers are past cycle 2.
ScenarioCycle2Done == n = BaseCount /\ AfterCycle2

----------------------------------------------------------------------------
(* C5 *)

\* C5: the stop signal starts false and no step takes it from true to false.
StopSignalMonotonic == ~stop_event /\ [][stop_event => stop_event']_vars

\* C5 witness: the signal is set, a loop has terminated on it and a set_focus
\* callback is running.
CommandAfterStop ==
    /\ stop_event
    /\ cmd.op = "focus"
    /\ \E d \in Drivers : pc[d] = "terminated"

----------------------------------------------------------------------------
(* C6 *)

\* C6 as claimed: a handle is quit only under the stop signal, at most once,
\* its loop takes no step afterwards, and every thread that ends has quit its
\* handle.
HandleReleasedOnEveryExit ==
    [][\A d \in Drivers :
        /\ quit_calls'[d] # quit_calls[d] => (stop_event /\ quit_calls'[d] = 1)
        /\ quit_calls[d] > 0 => pc'[d] = pc[d]
        /\ (pc'[d] \in EndedPcs /\ pc[d] \notin EndedPcs) => quit_calls'[d] = 1]_vars

----------------------------------------------------------------------------
(* C7 *)

\* C7: the first statement of resume_searching(i) leaves searching[i] true
\* (whatever a pause(i) before it did) and that of pause_searching(i) leaves it
\* false; neither statement of either call changes another driver's flag, the
\* table or the stop signal.
PauseResumeFrame ==
    [][(MainThreadStep /\ (cmd.op \in {"pause", "resume"} \/ cmd'.op \in {"pause", "resume"})) =>
        LET c == IF cmd = Idle THEN cmd' ELSE cmd
        IN  /\ cmd = Idle => searching'[c.i] = (c.op = "resume")
            /\ cmd # Idle => searching'[c.i] = searching[c.i]
            /\ \A j \in Drivers \ {c.i} : searching'[j] = searching[j]
            /\ desired_page' = desired_page
            /\ stop_event' = stop_event]_vars

\* C7 witness: resume_searching(0) has set the flag of driver 0, which a
\* check_page had paused, and driver 1 stays paused.
ResumedAfterPause ==
    /\ cmd = [op |-> "resume", i |-> 0, step |-> "put"]
    /\ searching[0]
    /\ ~searching[1]
    /\ pc[0] \in LoopPcs
    /\ pc[1] \in LoopPcs

----------------------------------------------------------------------------
(* C8 *)

\* The step is a call of Glasto.pause or Glasto.resume on driver d: by
\* check_page's pause_searching, or by the first statement of a command
CallsPauseOrResume(d) ==
    \/ pc[d] = "cp_pause" /\ pc'[d] = "cp_put"
    \/ MainThreadStep /\ cmd'.step = "put" /\ cmd'.i = d

\* C8 as claimed: every step that changes searching[d] is a pause() or
\* resume() call on driver d.
FlagOnlyViaPauseResume ==
    [][\A d \in Drivers :
        searching'[d] # searching[d] => CallsPauseOrResume(d)]_vars

\* C8 amended: every step that changes searching[d] is a pause() or resume()
\* call on driver d, or auto_run's own start-up assignment self.searching =
\* True, which sets the flag without calling resume().
FlagViaPauseResumeOrStartUp ==
    [][\A d \in Drivers :
        searching'[d] # searching[d] =>
            \/ CallsPauseOrResume(d)
            \/ pc[d] = "set_searching" /\ pc'[d] = "loop_stop" /\ searching'[d]]_vars

\* C8 witness: auto_run's start-up assignment has set the flag of a driver
\* that check_page had paused: it is searching and no command has run yet.
StartUpSetsFlag ==
    \E d \in Drivers :
        /\ pc[d] = "loop_stop"
        /\ searching[d]
        /\ cmd = Idle
        /\ labels[d] = StatusText(d, "paused")
        /\ update_queue = <<>>

----------------------------------------------------------------------------
(* C9 *)

\* C9 as claimed: a failing current_url read in check_page never ends the
\* driver's thread: the loop goes on and still quits its handle on shutdown.
ReadFailureNotFatal == \A d \in Drivers : pc[d] # "crashed"

----------------------------------------------------------------------------
(* C10 *)

\* C10: when threaded_execution has returned, `function` has been invoked
\* exactly once for every element and every invocation has completed or
\* failed: none is queued or running, none was skipped, none ran twice.
ReturnedMeansAllRanOnce ==
    pool_pc = "returned" =>
        \A e \in Elements : calls[e] = 1 /\ Finished(e)

\* C10 witness: a call with MaxTasks elements has returned, some invocations
\* having failed and some having completed.
PoolReturnedMixed ==
    /\ pool_pc = "returned"
    /\ pool_m = MaxTasks
    /\ \E e \in Elements : task[e] = "failed"
    /\ \E e \in Elements : task[e] = "done"

----------------------------------------------------------------------------
(* C11 *)

\* C11: for every set of failing elements the call returns normally, and when
\* it does every failing invocation has failed and been logged and every
\* other invocation has run to completion: a failure stops no other element.
FailuresIsolated ==
    <>(/\ pool_pc = "returned"
       /\ pool_errors = pool_fail
       /\ \A e \in Elements :
            task[e] = IF e \in pool_fail THEN "failed" ELSE "done")

\* C11 witness: the first element's invocation failed and was logged, and the
\* call has returned with all the others completed.
FirstFailedRestDone ==
    /\ pool_pc = "returned"
    /\ pool_m = MaxTasks
    /\ pool_fail = {1}
    /\ pool_errors = {1}
    /\ \A e \in Elements \ {1} : task[e] = "done"

----------------------------------------------------------------------------
(* C12 *)

\* C12: at every moment of a call at most MaxWorkers invocations are running,
\* also when there are more elements than workers.
AtMostWorkersRunning == Cardinality(Running) <= MaxWorkers

\* C12 witness: every worker is running an invocation while a further work
\* item waits in the queue.
WorkersSaturated ==
    /\ Cardinality(Running) = MaxWorkers
    /\ \E e \in Elements : task[e] = "queued"

----------------------------------------------------------------------------
(* C13 *)

\* The drivers a list holds
Range(q) == {q[i] : i \in 1 .. Len(q)}

\* C13: the constructor never raises to its caller, and from the return of the
\* launch call onwards the fleet holds each driver once; when the launch call
\* returns, the fleet is exactly the elements whose construction succeeded.
FleetIsTheSuccesses ==
    /\ pool_pc # "raised"
    /\ Cardinality(Range(built)) = Len(built)
    /\ (pool_fn = "launch" /\ pool_pc = "returned") =>
            /\ Range(built) = Elements \ pool_fail
            /\ Len(built) = pool_m - Cardinality(pool_fail)

\* C13 witness: the constructor of element 2 raised, those of elements 1 and
\* 3 succeeded, and the manager's constructor has returned with these two.
LaunchedTwoOfThree ==
    /\ pool_pc = "launched"
    /\ Range(built) = {1, 3}
    /\ Len(built) = 2

----------------------------------------------------------------------------
(* C14, C15 *)

\* Two placed windows share a point of positive area
Overlap(a, b) ==
    /\ a.x < b.x + b.w
    /\ b.x < a.x + a.w
    /\ a.y < b.y + b.h
    /\ b.y < a.y + a.h

\* The placed windows are distinct cells (each of positive size), no two of
\* them overlap, each lies inside the screen, and the grid has room for all
CellsDisjointInScreen ==
    /\ \A d \in DOMAIN window :
            /\ window[d].w > 0 /\ window[d].h > 0
            /\ window[d].x >= 0 /\ window[d].y >= 0
            /\ (window[d].x + window[d].w) * monitor.scaling <= monitor.width
            /\ (window[d].y + window[d].h) * monitor.scaling <= monitor.height
    /\ \A d \in DOMAIN window : \A e \in DOMAIN window :
            d # e => (window[d] # window[e] /\ ~Overlap(window[d], window[e]))
    /\ grid_width(n) * grid_height(n) >= n

\* Every window is placed and, being disjoint and inside it, the windows
\* fill the screen: their areas add up to the area of the screen
CellsCoverScreen ==
    n * driver_width(n, monitor) * driver_height(n, monitor)
        = monitor.width * monitor.height

AllPlacedAtScaleOne == DOMAIN window = Drivers /\ monitor.scaling = 1

\* C14 as claimed: for every count (scaling 1) the cells are distinct, do not
\* overlap, tile the screen exactly, and columns * rows >= count.
LayoutTilesScreen ==
    AllPlacedAtScaleOne => (CellsDisjointInScreen /\ CellsCoverScreen)

\* C14 amended: for every count the cells are distinct, do not overlap, lie
\* inside the screen, and columns * rows >= count; they cover the screen
\* exactly only when the grid is full (count = columns * rows) and the columns
\* and rows divide the screen's width and height.
LayoutDisjointCells ==
    /\ CellsDisjointInScreen
    /\ AllPlacedAtScaleOne =>
          (CellsCoverScreen <=>
              /\ n = grid_width(n) * grid_height(n)
              /\ monitor.width % grid_width(n) = 0
              /\ monitor.height % grid_height(n) = 0)

\* C14 witness: three windows are placed on a 2 x 2 grid, whose fourth cell
\* stays empty.
ThreeWindowsPlaced ==
    /\ n = 3
    /\ AllPlacedAtScaleOne
    /\ grid_width(n) = 2
    /\ grid_height(n) = 2
    /\ ~CellsCoverScreen

\* The scenario's call: index 5 of 9 on a 1920 x 1080 screen at scaling 1
Layout5Of9 ==
    /\ n = 9
    /\ monitor = [width |-> 1920, height |-> 1080, scaling |-> 1]
    /\ 5 \in DOMAIN window

\* C15 as claimed: columns = 3, rows = 3, cellWidth = 640, cellHeight = 360,
\* x = 640, y = 360.
Layout5Of9AtX640 ==
    Layout5Of9 =>
        /\ grid_width(n) = 3 /\ grid_height(n) = 3
        /\ window[5] = [x |-> 640, y |-> 360, w |-> 640, h |-> 360]

\* C15 amended: columns = 3, rows = 3, cellWidth = 640, cellHeight = 360,
\* x = (5 mod 3) * 640 = 1280, y = (5 div 3) * 360 = 360.
Layout5Of9AtX1280 ==
    Layout5Of9 =>
        /\ grid_width(n) = 3 /\ grid_height(n) = 3
        /\ window[5] = [x |-> 1280, y |-> 360, w |-> 640, h |-> 360]

\* C15 witness: the window of index 5 of 9 is placed and, being the last of
\* the second row, it is not in the column of index 1.
Layout5Of9Placed ==
    /\ Layout5Of9
    /\ 1 \in DOMAIN window
    /\ window[5].x # window[1].x

----------------------------------------------------------------------------
(* C16 *)

\* C16: once the manager is constructed the drivers list is never changed:
\* in every step of start, the commands, set_focus, the run-loops' reports
\* and quit it keeps its length and holds the same driver at every index.
FleetNeverChanges ==
    /\ Len(built) = n
    /\ [][built' = built /\ n' = n]_vars

\* C16 witness: every operation has had its turn on the list: the fleet is
\* started, a set_focus callback is running after quit(), one loop has
\* terminated its handle, and both drivers are still in the list.
FleetIntactAfterQuit ==
    /\ start_k = n
    /\ stop_event
    /\ cmd.op = "focus"
    /\ cmd.step = "max"
    /\ \E d \in Drivers : quit_calls[d] = 1
    /\ \E d \in Drivers : labels[d] = StatusText(d, "paused")
    /\ Len(built) = NumDrivers

----------------------------------------------------------------------------
(* C17 *)

\* Driver d's check_page has tested the table and has yet to write it
InReadTestWrite(d) == pc[d] \in {"cp_pause", "cp_put", "cp_set"}

\* update_checkboxes is between its first write to and its last read of the
\* table
TableUpdateRunning == mon_pc \in {"write_back", "rebuild"}

\* C17 as claimed: at most one execution unit at a time is inside a
\* read-test-write of the table.
TableAccessExclusive ==
    Cardinality({d \in Drivers : InReadTestWrite(d)})
        + (IF TableUpdateRunning THEN 1 ELSE 0) <= 1

----------------------------------------------------------------------------
(* C18 *)

\* The messages of sequence q that carry driver index i
MessagesOf(q, i) == SelectSeq(q, LAMBDA msg : msg[1] = i)

\* C18: for every driver i the messages with index i that were put are, in
\* the order of their puts, those the drain has taken followed by those still
\* in the queue: the drain takes them in that order, loses and repeats none.
PerAgentFifo ==
    hist.on =>
        \A i \in Drivers :
            MessagesOf(hist.sent, i)
                = MessagesOf(hist.drained, i) \o MessagesOf(update_queue, i)

\* C18 witness: after a first message was drained, a "paused" and then a
\* "searching" message of driver 0 wait in the queue behind one another.
TwoMessagesOfOneAgentQueued ==
    /\ hist.on
    /\ Len(hist.drained) >= 1
    /\ MessagesOf(update_queue, 0)
          = <<StatusMessage(0, "paused"), StatusMessage(0, "searching")>>

----------------------------------------------------------------------------
(* C19 *)

\* Driver d's thread takes a step inside check_page, after the read
CheckPageStep(d) ==
    /\ pc[d] \in {"cp_test", "cp_pause", "cp_put", "cp_set"}
    /\ pc'[d] # pc[d]

\* C19: a check_page call that finds its URL missing from the table or mapped
\* to true pauses its driver, then puts the driver's "paused" message, then
\* maps the URL to true, and returns with the flag false; a call that finds
\* it mapped to false returns at once and leaves the flags, the table and the
\* queue as they are.  No step of the call changes another driver's flag.
CheckPageEffect ==
    [][\A d \in Drivers :
        CheckPageStep(d) =>
            /\ \A j \in Drivers \ {d} : searching'[j] = searching[j]
            /\ pc[d] = "cp_test" =>
                  IF ~Has(desired_page, cp_url[d]) \/ DictGet(desired_page, cp_url[d])
                  THEN pc'[d] = "cp_pause"
                  ELSE /\ CheckPageReturns(d)
                       /\ searching' = searching
                       /\ desired_page' = desired_page
                       /\ update_queue' = update_queue
            /\ pc[d] = "cp_pause" => (pc'[d] = "cp_put" /\ ~searching'[d])
            /\ pc[d] = "cp_put" =>
                  /\ pc'[d] = "cp_set"
                  /\ update_queue' = Append(update_queue, <<d, <<"Driver", d + 1, "paused">>>>)
            /\ pc[d] = "cp_set" =>
                  /\ CheckPageReturns(d)
                  /\ DictGet(desired_page', cp_url[d])
                  /\ ~searching'[d]]_vars

\* C19 witness: both outcomes have happened: driver 0 came back from a loop
\* report still searching (its URL was mapped to false), and the queue URL,
\* reported by a call that paused its driver, is mapped to true.
BothOutcomesSeen ==
    /\ pc[0] = "loop_stop"
    /\ caller[0] = "loop"
    /\ searching[0]
    /\ Has(desired_page, EntryUrl)
    /\ ~DictGet(desired_page, EntryUrl)
    /\ DictGet(desired_page, QueueUrl)
    /\ ~searching[1]

----------------------------------------------------------------------------
(* C20 *)

\* C20: once the stop signal is set, a run-loop sleeps at most once more,
\* reloads at most once more and reports at most once more, whether it is
\* searching or paused, and whatever commands arrive.
AtMostOneMoreIteration ==
    hist.timing =>
        \A d \in Drivers :
            /\ hist.after[d].sleeps <= 1
            /\ hist.after[d].reloads <= 1
            /\ hist.after[d].reports <= 1

\* C20 witness: both loops have terminated their handles; after the signal
\* driver 0, searching, did one more reload, sleep and report, and driver 1,
\* paused, did one more sleep.
BothLoopsRanOnceMore ==
    /\ hist.timing
    /\ \A d \in Drivers : pc[d] = "terminated"
    /\ hist.after[0] = [sleeps |-> 1, reloads |-> 1, reports |-> 1]
    /\ hist.after[1] = [sleeps |-> 1, reloads |-> 0, reports |-> 0]

----------------------------------------------------------------------------
(* C21 *)

\* What an idle iteration leaves alone: the table, the queue, every flag, the
\* handles, and (history) the loop's count of reloads and reports
IdleFrame(d) ==
    /\ desired_page' = desired_page
    /\ update_queue' = update_queue
    /\ searching' = searching
    /\ quit_calls' = quit_calls
    /\ hist.timing =>
          /\ hist'.after[d].reloads = hist.after[d].reloads
          /\ hist'.after[d].reports = hist.after[d].reports

\* C21: an iteration of driver d's loop that reads the flag as false goes to
\* the sleep of the else branch and from there back to the test of the stop
\* signal; neither step reloads the handle, changes the table or puts a
\* message, also when a resume command arrives during the sleep.
IdleIterationOnlySleeps ==
    [][\A d \in Drivers :
        /\ (pc[d] = "loop_flag" /\ pc'[d] # pc[d] /\ ~searching[d]) =>
              (pc'[d] = "idle_sleep" /\ IdleFrame(d))
        /\ (pc[d] = "idle_sleep" /\ pc'[d] # pc[d]) =>
              (pc'[d] = "loop_stop" /\ IdleFrame(d))]_vars

\* C21 witness: a loop that read its flag as false after the stop signal has
\* slept and is back at the while condition, with no reload and no report
\* counted, although a resume command set its flag during the sleep.
IdleIterationDone ==
    /\ hist.timing
    /\ \E d \in Drivers :
          /\ pc[d] = "loop_stop"
          /\ searching[d]
          /\ hist.after[d] = [sleeps |-> 1, reloads |-> 0, reports |-> 0]

----------------------------------------------------------------------------
(* C22 *)

\* C22 as claimed: set_focus(i) pauses driver i first, then form_grid places
\* every window of the fleet in its cell, then driver i's window is maximized
\* (unless its handle has quit); no step of the call changes another driver's
\* flag, and when the call returns driver i's flag is false.
FocusReturnsPaused ==
    [][(MainThreadStep /\ (cmd.op = "focus" \/ cmd'.op = "focus")) =>
        LET c == IF cmd = Idle THEN cmd' ELSE cmd
        IN  /\ \A j \in Drivers \ {c.i} : searching'[j] = searching[j]
            /\ cmd = Idle => (cmd'.step = "grid" /\ ~searching'[c.i])
            /\ cmd.step = "grid" =>
                  /\ cmd'.step = "max"
                  /\ window' = [d \in Drivers |-> position(d, n, monitor)]
            /\ cmd.step = "max" =>
                  /\ cmd' = Idle
                  /\ quit_calls[c.i] = 0 => maximized' = c.i
                  /\ ~searching'[c.i]]_vars

----------------------------------------------------------------------------
(* C23 *)

\* The word of the message a command puts
WordOf(op) == IF op \in {"resume", "resume_all"} THEN "searching" ELSE "paused"

\* The last count items of sequence q
LastOf(q, count) == SubSeq(q, Len(q) - count + 1, Len(q))

----------------------------------------------------------------------------
(* C24 *)

\* C24: start runs its loop over the fleet without waiting for any run-loop
\* (its next turn can always be taken); the drivers whose thread was started
\* are those the loop has passed, each started in the one turn for its index,
\* with its URL set to the entry URL in that turn, before the thread's first
\* step; and from then on no step changes that driver's URL.
StartSetsUrlThenRuns ==
    /\ [](/\ start_k \in 0 .. n
          /\ start_k < n => ENABLED StartDriver
          /\ \A d \in Drivers :
                /\ pc[d] # "idle" <=> d < start_k
                /\ pc[d] # "idle" => url[d] = EntryUrl)
    /\ [][\A d \in Drivers :
            /\ (pc[d] = "idle" /\ pc'[d] # "idle") =>
                  /\ start_k = d
                  /\ start_k' = d + 1
                  /\ url'[d] = EntryUrl
                  /\ pc'[d] = "get"
            /\ pc[d] # "idle" => (pc'[d] # "idle" /\ url'[d] = url[d])
            /\ url'[d] # url[d] => pc[d] = "idle"]_vars

\* C24 witness: start has returned before any run-loop took its first step:
\* every driver has its URL and a thread that is about to navigate.
StartReturnedBeforeLoops ==
    /\ start_k = n
    /\ \A d \in Drivers : pc[d] = "get" /\ url[d] = EntryUrl

----------------------------------------------------------------------------
(* C26 *)

\* C26 as claimed: from the return of pause_searching(i), pause_all or
\* set_focus(i) until the next resume_searching(i) or resume_all sets it,
\* driver i's flag is false, in every interleaving with driver i's run-loop.
OperatorPauseHolds ==
    hist.pauses => \A d \in hist.held : ~searching[d]

----------------------------------------------------------------------------
(* C27 *)

\* No command and no check_page call is in progress and the queue is drained
StatusQuiescent ==
    /\ cmd = Idle
    /\ update_queue = <<>>
    /\ \A d \in Drivers : pc[d] \notin {"cp_read", "cp_test", "cp_pause", "cp_put", "cp_set"}

\* C27 as claimed, for the drivers whose run-loop is inside its while loop:
\* whenever the status stream is quiescent the label of driver i, which shows
\* the last message delivered for it (or the initial "searching"), says
\* "searching" exactly when driver i's flag is true and "paused" when false.
StatusTracksFlag ==
    StatusQuiescent =>
        \A d \in Drivers :
            pc[d] \in LoopPcs =>
                labels[d] = <<"Driver", d + 1, IF searching[d] THEN "searching" ELSE "paused">>

----------------------------------------------------------------------------
(* C25 *)

\* C25 as claimed: a turn of the drain that takes a message whose index has
\* no row in driver_info skips it: no label changes and every scheduled
\* check_for_updates stays scheduled, so the messages behind it are processed.
DrainSkipsStaleIndex ==
    [][(/\ update_queue # <<>>
        /\ update_queue' = Tail(update_queue)
        /\ update_queue[1][1] \notin DOMAIN labels) =>
            (labels' = labels /\ polling' = polling)]_vars

----------------------------------------------------------------------------
(* C28 *)

\* C28 as claimed: whenever the window has been closed, also before the
\* manager was stored, the stop signal is eventually set and every driver's
\* run-loop has terminated its handle.
ClosingTerminatesAll ==
    (cmd = Destroyed) ~>
        (stop_event /\ \A d \in Drivers : pc[d] = "terminated" /\ quit_calls[d] = 1)

====
